---- MODULE Spec2Model ----
(***************************************************************************)
(* Model of salt/modules/boto_clouddirectory.py: seven execution-module    *)
(* functions that resolve a boto3 client, validate their arguments, issue  *)
(* one Cloud Directory API call and normalise the response or the error.   *)
(*                                                                         *)
(* Two callers (Procs) run invocations concurrently, one statement at a    *)
(* time.  The provider, the connection factory and the filesystem are      *)
(* test doubles: the provider's outcome is chosen nondeterministically at  *)
(* the remote call, the filesystem is the fixed mapping FS.                *)
(***************************************************************************)
EXTENDS Integers, Sequences, FiniteSets, TLC

\* ------------------------------------------------------------------ bounds
MaxConns == 2       \* connection handles the factory hands out in one run
MaxArns == 2        \* longest SchemaArns list the provider answers with

Procs == {1, 2}

\* ----------------------------------------------------------- Python values
\* A Python value: None, a str, an int, a bytes object or a list of str.
PyNone == [t |-> "none", s |-> "", n |-> 0, l |-> <<>>]
PyStr(x) == [t |-> "str", s |-> x, n |-> 0, l |-> <<>>]
PyInt(k) == [t |-> "int", s |-> "", n |-> k, l |-> <<>>]
PyBytes(x) == [t |-> "bytes", s |-> x, n |-> 0, l |-> <<>>]
PyList(q) == [t |-> "list", s |-> "", n |-> 0, l |-> q]

\* Python truth value testing, as used by `if not name:`.
truthy(v) ==
    CASE v.t = "none" -> FALSE
      [] v.t = "str" -> v.s # ""
      [] v.t = "bytes" -> v.s # ""
      [] v.t = "int" -> v.n # 0
      [] v.t = "list" -> v.l # <<>>

Digit(d) ==
    CASE d = 0 -> "0" [] d = 1 -> "1" [] d = 2 -> "2" [] d = 3 -> "3"
      [] d = 4 -> "4" [] d = 5 -> "5" [] d = 6 -> "6" [] d = 7 -> "7"
      [] d = 8 -> "8" [] d = 9 -> "9"

RECURSIVE Decimal(_)
Decimal(k) == IF k < 10 THEN Digit(k) ELSE Decimal(k \div 10) \o Digit(k % 10)

\* The builtin str(): a str is returned as is, an int as its decimal digits.
str_identity(v) == v
str(v) ==
    CASE v.t = "str" -> v
      [] v.t = "int" -> PyStr(IF v.n < 0 THEN "-" \o Decimal(-v.n) ELSE Decimal(v.n))
      [] v.t = "none" -> PyStr("None")
      [] OTHER -> PyStr(v.s)

\* A dict is the set of its <<key, value>> items.
Has(d, k) == \E p \in d : p[1] = k
Get(d, k) == (CHOOSE p \in d : p[1] = k)[2]
Keys(d) == {p[1] : p \in d}

\* ------------------------------------------------------- outcomes of a call
Pending == [kind |-> "pending", exc |-> "", val |-> PyNone, map |-> {}, is_map |-> FALSE]
Return(v) == [kind |-> "return", exc |-> "", val |-> v, map |-> {}, is_map |-> FALSE]
ReturnMap(d) == [kind |-> "return", exc |-> "", val |-> PyNone, map |-> d, is_map |-> TRUE]
Raise(e) == [kind |-> "raise", exc |-> e, val |-> PyNone, map |-> {}, is_map |-> FALSE]

\* `resp[k]` on a dict: the value, or KeyError when the key is missing.
subscript(resp, k) == IF Has(resp, k) THEN Return(Get(resp, k)) ELSE Raise("KeyError")

\* ------------------------------------------------------------ test doubles
\* The filesystem the document paths are opened in: path -> content.
FS == {<<"/doc.json", "{\"a\":1}">>, <<"/empty.json", "">>}

\* Client-error codes the provider answers with, and ARNs it hands back.
ClientErrorCodes == {"AccessDeniedException", "ResourceNotFoundException"}
RespArns == {"arn:1", "arn:2"}

RECURSIVE SeqsUpTo(_, _)
SeqsUpTo(S, k) ==
    IF k = 0 THEN {<<>>}
    ELSE LET shorter == SeqsUpTo(S, k - 1)
         IN shorter \cup {Append(q, x) : q \in shorter, x \in S}

Ops ==
    {"create_schema", "publish_schema", "create_directory", "put_schema_from_json",
     "delete_schema", "list_development_schema_arns", "list_published_schema_arns"}

ListOps == {"list_development_schema_arns", "list_published_schema_arns"}

\* The field of the provider's response each operation answers with.
ResponseField(o) ==
    CASE o = "create_schema" -> "SchemaArn"
      [] o = "publish_schema" -> "PublishedSchemaArn"
      [] o = "create_directory" -> "DirectoryArn"
      [] o = "put_schema_from_json" -> "Arn"
      [] o = "delete_schema" -> "SchemaArn"
      [] OTHER -> "SchemaArns"

\* Responses of a successful remote call; {} is a response without the field.
Responses(o) ==
    IF o \in ListOps
    THEN {{<<"SchemaArns", PyList(q)>>} : q \in SeqsUpTo(RespArns, MaxArns)} \cup {{}}
    ELSE {{<<ResponseField(o), PyStr(x)>>} : x \in RespArns} \cup {{}}

NoOutcome == [kind |-> "none", code |-> "", resp |-> {}]

\* What the remote call can do: answer, raise botocore's ClientError, or raise
\* another botocore exception (a BotoCoreError such as EndpointConnectionError).
ProviderOutcomes(o) ==
    {[kind |-> "ok", code |-> "", resp |-> r] : r \in Responses(o)}
    \cup {[kind |-> "ClientError", code |-> c, resp |-> {}] : c \in ClientErrorCodes}
    \cup {[kind |-> "BotoCoreError", code |-> "EndpointConnectionError", resp |-> {}]}

\* ------------------------------------------------------- arguments tried
NoArgs == [name |-> PyNone, arn |-> PyNone, version |-> PyNone, document |-> PyNone]
Names == {PyStr(""), PyStr("dev1")}
Arns == {PyNone, PyStr(""), PyStr("X")}
Versions == {PyStr(""), PyStr("1.0"), PyInt(0), PyInt(12)}
Documents == {PyStr(""), PyStr("/doc.json"), PyStr("/empty.json"), PyStr("/missing.json")}

Inputs(o) ==
    CASE o = "create_schema" -> {[NoArgs EXCEPT !.name = x] : x \in Names}
      [] o = "publish_schema" ->
            {[NoArgs EXCEPT !.arn = x, !.version = y] : x \in Arns, y \in Versions}
      [] o = "create_directory" ->
            {[NoArgs EXCEPT !.name = x, !.arn = y] : x \in Names, y \in Arns}
      [] o = "put_schema_from_json" ->
            {[NoArgs EXCEPT !.arn = x, !.document = y] : x \in Arns, y \in Documents}
      [] o = "delete_schema" -> {[NoArgs EXCEPT !.arn = x] : x \in Arns}
      [] OTHER -> {NoArgs}

\* ------------------------------------------------- injected collaborators
\* __utils__['boto3.get_error'](e): the formatted description of the error.
get_error(code) == PyStr("An error occurred (" \o code \o ")")

\* _get_conn(...): a handle not handed out before; `n` handles were issued.
_get_conn(n) == n + 1

\* ------------------------------------------------------------ _filedata
_filedata_swallow(infile) ==
    IF Has(FS, infile.s) THEN Return(PyBytes(Get(FS, infile.s))) ELSE Return(PyBytes(""))
_filedata(infile) ==
    IF Has(FS, infile.s) THEN Return(PyBytes(Get(FS, infile.s))) ELSE Raise("IOError")

\* ------------------------------------------------- the except clause
error_mapping_reraise(code) == Raise("ClientError")
error_mapping_extra(code) == ReturnMap({<<"error", get_error(code)>>, <<"result", PyNone>>})
error_mapping(code) == ReturnMap({<<"error", get_error(code)>>})

\* ------------------------------------------------------- create_schema
create_schema_body == <<"get_conn", "validate", "call", "return">>
create_schema_valid(a) == truthy(a.name)
create_schema_kwargs(a, doc) == {<<"Name", a.name>>}
create_schema_return(a, resp) == subscript(resp, "SchemaArn")

\* ------------------------------------------------------ publish_schema
publish_schema_body == <<"get_conn", "validate", "call", "return">>
publish_schema_valid(a) == truthy(a.arn) /\ truthy(a.version)
publish_schema_kwargs(a, doc) ==
    {<<"DevelopmentSchemaArn", a.arn>>, <<"Version", str(a.version)>>}
publish_schema_return(a, resp) == subscript(resp, "PublishedSchemaArn")

\* ---------------------------------------------------- create_directory
create_directory_body == <<"get_conn", "validate", "call", "return">>
create_directory_valid(a) == truthy(a.name) /\ truthy(a.arn)
create_directory_kwargs(a, doc) == {<<"Name", a.name>>, <<"SchemaArn", a.arn>>}
create_directory_return(a, resp) == subscript(resp, "DirectoryArn")

\* ------------------------------------------------ put_schema_from_json
put_schema_from_json_body == <<"get_conn", "validate", "read", "call", "return">>
put_schema_from_json_valid(a) == truthy(a.arn) /\ truthy(a.document)
put_schema_from_json_kwargs(a, doc) == {<<"SchemaArn", a.arn>>, <<"Document", doc>>}
put_schema_from_json_return(a, resp) == subscript(resp, "Arn")

\* ------------------------------------------------------- delete_schema
delete_schema_body_late_conn == <<"validate", "get_conn", "call", "return">>
delete_schema_body == <<"get_conn", "validate", "call", "return">>
delete_schema_valid_unchecked(a) == TRUE
delete_schema_valid(a) == truthy(a.arn)
delete_schema_kwargs(a, doc) == {<<"SchemaArn", a.arn>>}
delete_schema_return_response(a, resp) == subscript(resp, "SchemaArn")
delete_schema_return(a, resp) == Return(a.arn)

\* ------------- list_development_schema_arns, list_published_schema_arns
list_development_schema_arns_body == <<"get_conn", "call", "loop", "return">>
list_published_schema_arns_body == <<"get_conn", "call", "loop", "return">>
list_kwargs(a, doc) == {}
list_return(al) == Return(PyList(al))

\* --------------------------------------------------------- dispatch
body(o) ==
    CASE o = "create_schema" -> create_schema_body
      [] o = "publish_schema" -> publish_schema_body
      [] o = "create_directory" -> create_directory_body
      [] o = "put_schema_from_json" -> put_schema_from_json_body
      [] o = "delete_schema" -> delete_schema_body
      [] o = "list_development_schema_arns" -> list_development_schema_arns_body
      [] o = "list_published_schema_arns" -> list_published_schema_arns_body

valid(o, a) ==
    CASE o = "create_schema" -> create_schema_valid(a)
      [] o = "publish_schema" -> publish_schema_valid(a)
      [] o = "create_directory" -> create_directory_valid(a)
      [] o = "put_schema_from_json" -> put_schema_from_json_valid(a)
      [] o = "delete_schema" -> delete_schema_valid(a)
      [] OTHER -> TRUE

kwargs(o, a, doc) ==
    CASE o = "create_schema" -> create_schema_kwargs(a, doc)
      [] o = "publish_schema" -> publish_schema_kwargs(a, doc)
      [] o = "create_directory" -> create_directory_kwargs(a, doc)
      [] o = "put_schema_from_json" -> put_schema_from_json_kwargs(a, doc)
      [] o = "delete_schema" -> delete_schema_kwargs(a, doc)
      [] OTHER -> list_kwargs(a, doc)

returns(o, a, resp, al) ==
    CASE o = "create_schema" -> create_schema_return(a, resp)
      [] o = "publish_schema" -> publish_schema_return(a, resp)
      [] o = "create_directory" -> create_directory_return(a, resp)
      [] o = "put_schema_from_json" -> put_schema_from_json_return(a, resp)
      [] o = "delete_schema" -> delete_schema_return(a, resp)
      [] OTHER -> list_return(al)

\* The statement after statement `st` of operation o ("done" after the last).
succ(o, st) ==
    LET b == body(o)
        k == CHOOSE j \in 1..Len(b) : b[j] = st
    IN IF k = Len(b) THEN "done" ELSE b[k + 1]

\* ------------------------------------------------------------------ state
VARIABLES
    pc,             \* pc[i]: the statement invocation i executes next
    op,             \* op[i]: the operation invoked
    args,           \* args[i]: its required arguments
    conn,           \* conn[i]: local `conn`, 0 while unresolved
    steps,          \* steps[i]: the statements executed so far, in order
    reads,          \* reads[i]: the paths opened by _filedata
    json_document,  \* json_document[i]: local `json_document`
    outcome,        \* outcome[i]: what the provider did with the remote call
    arn_list,       \* arn_list[i]: local `arn_list`
    it,             \* it[i]: position of the for loop over SchemaArns
    calls,          \* calls[i]: the requests recorded by the connection double
    result,         \* result[i]: how the invocation ended
    issued,         \* handles handed out by the connection factory so far
    module_state    \* the module's globals

vars ==
    <<pc, op, args, conn, steps, reads, json_document, outcome, arn_list, it,
      calls, result, issued, module_state>>

\* Module-level names bound at import (lines 19-34).
ModuleGlobals ==
    [HAS_BOTO3 |-> TRUE, virtualname |-> "boto_clouddirectory",
     func_alias |-> {<<"list_", "list">>}]

Contains(q, x) == \E k \in 1..Len(q) : q[k] = x
Count(q, x) == Cardinality({k \in 1..Len(q) : q[k] = x})

Running(i) == pc[i] \notin {"idle", "done"}
Done(i) == pc[i] = "done"

Init ==
    /\ pc = [i \in Procs |-> "idle"]
    /\ op = [i \in Procs |-> "create_schema"]
    /\ args = [i \in Procs |-> NoArgs]
    /\ conn = [i \in Procs |-> 0]
    /\ steps = [i \in Procs |-> <<>>]
    /\ reads = [i \in Procs |-> <<>>]
    /\ json_document = [i \in Procs |-> PyNone]
    /\ outcome = [i \in Procs |-> NoOutcome]
    /\ arn_list = [i \in Procs |-> <<>>]
    /\ it = [i \in Procs |-> 0]
    /\ calls = [i \in Procs |-> <<>>]
    /\ result = [i \in Procs |-> Pending]
    /\ issued = 0
    /\ module_state = ModuleGlobals

\* conn.<method>(**kwargs): the connection double records the request.
conn_call_retry(log, i, rec) == [log EXCEPT ![i] = Append(Append(@, rec), rec)]
conn_call(log, i, rec) == [log EXCEPT ![i] = Append(@, rec)]

\* arn_list.append(arn) on the invocation's own list.
arn_list_append_shared(al, i, x) == [j \in DOMAIN al |-> Append(al[j], x)]
arn_list_prepend(al, i, x) == [al EXCEPT ![i] = <<x>> \o @]
arn_list_append(al, i, x) == [al EXCEPT ![i] = Append(@, x)]

\* The caller enters operation o with arguments a; the locals are fresh.
Invoke(i) ==
    /\ pc[i] = "idle"
    /\ issued + Cardinality({j \in Procs : Running(j) /\ conn[j] = 0}) < MaxConns
    /\ \E o \in Ops : \E a \in Inputs(o) :
        /\ op' = [op EXCEPT ![i] = o]
        /\ args' = [args EXCEPT ![i] = a]
        /\ pc' = [pc EXCEPT ![i] = body(o)[1]]
    /\ conn' = [conn EXCEPT ![i] = 0]
    /\ steps' = [steps EXCEPT ![i] = <<>>]
    /\ reads' = [reads EXCEPT ![i] = <<>>]
    /\ json_document' = [json_document EXCEPT ![i] = PyNone]
    /\ outcome' = [outcome EXCEPT ![i] = NoOutcome]
    /\ arn_list' = [arn_list EXCEPT ![i] = <<>>]
    /\ it' = [it EXCEPT ![i] = 0]
    /\ calls' = [calls EXCEPT ![i] = <<>>]
    /\ result' = [result EXCEPT ![i] = Pending]
    /\ UNCHANGED <<issued, module_state>>

\* conn = _get_conn(region=region, key=key, keyid=keyid, profile=profile)
GetConnOk(i) ==
    /\ pc[i] = "get_conn"
    /\ conn' = [conn EXCEPT ![i] = _get_conn(issued)]
    /\ issued' = issued + 1
    /\ steps' = [steps EXCEPT ![i] = Append(@, "get_conn")]
    /\ pc' = [pc EXCEPT ![i] = succ(op[i], "get_conn")]
    /\ UNCHANGED <<op, args, reads, json_document, outcome, arn_list, it, calls,
                   result, module_state>>

\* _get_conn raises: nothing in the operation catches it.
GetConnFail(i) ==
    /\ pc[i] = "get_conn"
    /\ steps' = [steps EXCEPT ![i] = Append(@, "get_conn")]
    /\ result' = [result EXCEPT ![i] = Raise("ConnectionError")]
    /\ pc' = [pc EXCEPT ![i] = "done"]
    /\ UNCHANGED <<op, args, conn, reads, json_document, outcome, arn_list, it,
                   calls, issued, module_state>>

\* if not <required>: raise SaltInvocationError(...)
Validate(i) ==
    /\ pc[i] = "validate"
    /\ steps' = [steps EXCEPT ![i] = Append(@, "validate")]
    /\ IF valid(op[i], args[i])
       THEN /\ pc' = [pc EXCEPT ![i] = succ(op[i], "validate")]
            /\ UNCHANGED result
       ELSE /\ result' = [result EXCEPT ![i] = Raise("SaltInvocationError")]
            /\ pc' = [pc EXCEPT ![i] = "done"]
    /\ UNCHANGED <<op, args, conn, reads, json_document, outcome, arn_list, it,
                   calls, issued, module_state>>

\* json_document = _filedata(document)
ReadFile(i) ==
    /\ pc[i] = "read"
    /\ steps' = [steps EXCEPT ![i] = Append(@, "read")]
    /\ reads' = [reads EXCEPT ![i] = Append(@, args[i].document)]
    /\ LET r == _filedata(args[i].document)
       IN IF r.kind = "raise"
          THEN /\ result' = [result EXCEPT ![i] = r]
               /\ pc' = [pc EXCEPT ![i] = "done"]
               /\ UNCHANGED json_document
          ELSE /\ json_document' = [json_document EXCEPT ![i] = r.val]
               /\ pc' = [pc EXCEPT ![i] = succ(op[i], "read")]
               /\ UNCHANGED result
    /\ UNCHANGED <<op, args, conn, outcome, arn_list, it, calls, issued, module_state>>

\* try: <x> = conn.<op>(...)  except botocore.exceptions.ClientError as e: return {...}
RemoteCall(i) ==
    /\ pc[i] = "call"
    /\ steps' = [steps EXCEPT ![i] = Append(@, "call")]
    /\ calls' = conn_call(calls, i,
                          [conn |-> conn[i], method |-> op[i],
                           kwargs |-> kwargs(op[i], args[i], json_document[i])])
    /\ \E out \in ProviderOutcomes(op[i]) :
        /\ outcome' = [outcome EXCEPT ![i] = out]
        /\ CASE out.kind = "ClientError" ->
                    /\ result' = [result EXCEPT ![i] = error_mapping(out.code)]
                    /\ pc' = [pc EXCEPT ![i] = "done"]
             [] out.kind = "BotoCoreError" ->
                    /\ result' = [result EXCEPT ![i] = Raise("BotoCoreError")]
                    /\ pc' = [pc EXCEPT ![i] = "done"]
             [] OTHER ->
                    /\ pc' = [pc EXCEPT ![i] = succ(op[i], "call")]
                    /\ UNCHANGED result
    /\ UNCHANGED <<op, args, conn, reads, json_document, arn_list, it, issued,
                   module_state>>

\* for arn in <schemas>['SchemaArns']: arn_list.append(arn)
Loop(i) ==
    /\ pc[i] = "loop"
    /\ LET f == subscript(outcome[i].resp, "SchemaArns")
       IN CASE f.kind = "raise" ->
                    /\ result' = [result EXCEPT ![i] = f]
                    /\ pc' = [pc EXCEPT ![i] = "done"]
                    /\ steps' = [steps EXCEPT ![i] = Append(@, "loop")]
                    /\ UNCHANGED <<arn_list, it>>
            [] f.kind # "raise" /\ it[i] < Len(f.val.l) ->
                    /\ arn_list' = arn_list_append(arn_list, i, f.val.l[it[i] + 1])
                    /\ it' = [it EXCEPT ![i] = @ + 1]
                    /\ UNCHANGED <<result, pc, steps>>
            [] OTHER ->
                    /\ pc' = [pc EXCEPT ![i] = succ(op[i], "loop")]
                    /\ steps' = [steps EXCEPT ![i] = Append(@, "loop")]
                    /\ UNCHANGED <<result, arn_list, it>>
    /\ UNCHANGED <<op, args, conn, reads, json_document, outcome, calls, issued,
                   module_state>>

\* return <x>['<field>'] / return arn / return arn_list
ReturnStmt(i) ==
    /\ pc[i] = "return"
    /\ steps' = [steps EXCEPT ![i] = Append(@, "return")]
    /\ result' = [result EXCEPT ![i] =
                    returns(op[i], args[i], outcome[i].resp, arn_list[i])]
    /\ pc' = [pc EXCEPT ![i] = "done"]
    /\ UNCHANGED <<op, args, conn, reads, json_document, outcome, arn_list, it,
                   calls, issued, module_state>>

\* The call is over: its frame (locals, handle) is gone, the caller is free
\* to invoke again.
Finish(i) ==
    /\ pc[i] = "done"
    /\ issued < MaxConns
    /\ pc' = [pc EXCEPT ![i] = "idle"]
    /\ op' = [op EXCEPT ![i] = "create_schema"]
    /\ args' = [args EXCEPT ![i] = NoArgs]
    /\ conn' = [conn EXCEPT ![i] = 0]
    /\ steps' = [steps EXCEPT ![i] = <<>>]
    /\ reads' = [reads EXCEPT ![i] = <<>>]
    /\ json_document' = [json_document EXCEPT ![i] = PyNone]
    /\ outcome' = [outcome EXCEPT ![i] = NoOutcome]
    /\ arn_list' = [arn_list EXCEPT ![i] = <<>>]
    /\ it' = [it EXCEPT ![i] = 0]
    /\ calls' = [calls EXCEPT ![i] = <<>>]
    /\ result' = [result EXCEPT ![i] = Pending]
    /\ UNCHANGED <<issued, module_state>>

Next ==
    \E i \in Procs :
        \/ Invoke(i)
        \/ GetConnOk(i)
        \/ GetConnFail(i)
        \/ Validate(i)
        \/ ReadFile(i)
        \/ RemoteCall(i)
        \/ Loop(i)
        \/ ReturnStmt(i)
        \/ Finish(i)

Spec == Init /\ [][Next]_vars

\* ------------------------------------------------ an invocation run alone
\* The operation executed from its first statement to its last with no other
\* invocation in between: how it ends and the requests it sends, given whether
\* the connection resolved and what the provider does with the remote call.
RunAlone(o, a, resolved, out) ==
    LET none == <<>>
        rd == IF o = "put_schema_from_json" THEN _filedata(a.document) ELSE Return(PyNone)
        req == <<[method |-> o, kwargs |-> kwargs(o, a, rd.val)]>>
        field == subscript(out.resp, "SchemaArns")
    IN  IF ~resolved THEN [result |-> Raise("ConnectionError"), requests |-> none]
        ELSE IF ~valid(o, a) THEN [result |-> Raise("SaltInvocationError"), requests |-> none]
        ELSE IF rd.kind = "raise" THEN [result |-> rd, requests |-> none]
        ELSE IF out.kind = "ClientError"
             THEN [result |-> error_mapping(out.code), requests |-> req]
        ELSE IF out.kind = "BotoCoreError"
             THEN [result |-> Raise("BotoCoreError"), requests |-> req]
        ELSE IF o \in ListOps
             THEN [result |-> IF field.kind = "raise" THEN field ELSE list_return(field.val.l),
                   requests |-> req]
        ELSE [result |-> returns(o, a, out.resp, <<>>), requests |-> req]

\* ------------------------------------------------------ terms of the claims
\* The required arguments of each operation.
RequiredArgs(o) ==
    CASE o = "create_schema" -> {"name"}
      [] o = "publish_schema" -> {"arn", "version"}
      [] o = "create_directory" -> {"name", "arn"}
      [] o = "put_schema_from_json" -> {"arn", "document"}
      [] o = "delete_schema" -> {"arn"}
      [] OTHER -> {}

\* An argument that is empty or absent.
Empty(v) == v = PyNone \/ v = PyStr("")
AnyRequiredEmpty(i) == \E f \in RequiredArgs(op[i]) : Empty(args[i][f])
AllRequiredGiven(i) == \A f \in RequiredArgs(op[i]) : truthy(args[i][f])
Resolved(i) == conn[i] # 0
Readable(i) == op[i] = "put_schema_from_json" => Has(FS, args[i].document.s)
Requests(i) == [k \in 1..Len(calls[i]) |-> [method |-> calls[i][k].method,
                                            kwargs |-> calls[i][k].kwargs]]
IsErrorMapping(r) == r.kind = "return" /\ r.is_map
IsPayload(r) == r.kind = "return" /\ ~r.is_map
Raised(r, e) == r.kind = "raise" /\ r.exc = e

\* The invocation reached the remote call and the provider answered, or
\* failed with its client error; an answer carries the field the operation
\* projects (delete_schema projects none).
Answered(i) ==
    /\ outcome[i].kind = "ok"
    /\ op[i] # "delete_schema" => Has(outcome[i].resp, ResponseField(op[i]))
Served(i) ==
    /\ Resolved(i) /\ AllRequiredGiven(i) /\ Readable(i)
    /\ Answered(i) \/ outcome[i].kind = "ClientError"

\* ---------------------------------------------------------------- C1
\* C1 (as stated): every finished invocation whose connection resolved ended
\* by returning a success payload or an error mapping; none raised.
C1Original == \A i \in Procs : Done(i) /\ Resolved(i) => result[i].kind = "return"

\* C1 (amended): a finished invocation returns exactly one of {success
\* payload, error mapping} when its connection resolved, its required
\* arguments are all non-empty, its document (put_schema_from_json) was read
\* and the remote call answered with the projected field or failed with the
\* provider's client error: the error mapping exactly in the latter case.
\* Every other invocation raises, and the client error itself is never raised.
C1Theorem ==
    \A i \in Procs : Done(i) =>
        /\ Served(i) =>
            /\ result[i].kind = "return"
            /\ IsErrorMapping(result[i]) <=> outcome[i].kind = "ClientError"
            /\ IsPayload(result[i]) <=> outcome[i].kind = "ok"
        /\ ~Served(i) => result[i].kind = "raise"
        /\ ~Raised(result[i], "ClientError")

C1Witness ==
    \E i \in Procs :
        /\ Done(i) /\ Served(i) /\ outcome[i].kind = "ClientError"
        /\ IsErrorMapping(result[i])

\* ---------------------------------------------------------------- C2
\* C2 (as stated): a finished invocation with an empty or absent required
\* argument raised the invocation error, with no remote call and no file read.
C2Original ==
    \A i \in Procs : Done(i) /\ AnyRequiredEmpty(i) =>
        /\ Raised(result[i], "SaltInvocationError")
        /\ calls[i] = <<>> /\ reads[i] = <<>>

\* C2 (amended): an invocation with an empty or absent required argument
\* never makes a remote call or a file read, and once its connection has
\* resolved it ends by raising the invocation error.
C2Theorem ==
    \A i \in Procs : pc[i] # "idle" /\ AnyRequiredEmpty(i) =>
        /\ calls[i] = <<>> /\ reads[i] = <<>>
        /\ ~Contains(steps[i], "call") /\ ~Contains(steps[i], "read")
        /\ Done(i) /\ Resolved(i) => Raised(result[i], "SaltInvocationError")
        /\ Done(i) => result[i].kind = "raise"

C2Witness ==
    \E i \in Procs :
        /\ Done(i) /\ op[i] = "put_schema_from_json"
        /\ args[i].arn = PyStr("X") /\ args[i].document = PyStr("")
        /\ Raised(result[i], "SaltInvocationError")

\* ---------------------------------------------------------------- C3
\* C3: when the remote call fails with the provider's client error, the
\* invocation returns a mapping whose only key is "error" and whose value is
\* the formatted description of that error; nothing is raised, and a list
\* operation does not return its ARN list.
C3Theorem ==
    \A i \in Procs : Done(i) /\ outcome[i].kind = "ClientError" =>
        /\ result[i].kind = "return" /\ result[i].is_map
        /\ Keys(result[i].map) = {"error"} /\ Cardinality(result[i].map) = 1
        /\ Get(result[i].map, "error") = get_error(outcome[i].code)
        /\ result[i].val.t # "list"

C3Witness ==
    \E i \in Procs :
        /\ Done(i) /\ op[i] \in ListOps /\ outcome[i].kind = "ClientError"
        /\ result[i].map = {<<"error", PyStr("An error occurred (AccessDeniedException)")>>}

\* ---------------------------------------------------------------- C4
\* C4 (as stated): every finished invocation whose connection resolved issued
\* exactly one remote call.
C4Original == \A i \in Procs : Done(i) /\ Resolved(i) => Len(calls[i]) = 1

\* C4 (amended): an invocation never issues more than one remote call, also
\* after a provider error; a finished one issued exactly one when its
\* connection resolved, its required arguments are all non-empty and its
\* document (put_schema_from_json) was read, and none otherwise.
C4Theorem ==
    \A i \in Procs :
        /\ Len(calls[i]) <= 1
        /\ Count(steps[i], "call") = Len(calls[i])
        /\ Done(i) =>
            (Len(calls[i]) = 1 <=> Resolved(i) /\ AllRequiredGiven(i) /\ Readable(i))

C4Witness ==
    \E i \in Procs :
        /\ Done(i) /\ outcome[i].kind = "ClientError" /\ Len(calls[i]) = 1
        /\ \E j \in Procs : Done(j) /\ Resolved(j) /\ ~AllRequiredGiven(j) /\ calls[j] = <<>>

\* ---------------------------------------------------------------- C5
\* C5: in put_schema_from_json with non-empty arn and document, a failed read
\* of the document path ends the invocation with the local I/O error raised:
\* not an error mapping, not the invocation error, and no remote call issued.
C5Theorem ==
    \A i \in Procs :
        Done(i) /\ op[i] = "put_schema_from_json" /\ AllRequiredGiven(i)
            /\ reads[i] # <<>> /\ ~Has(FS, args[i].document.s) =>
                /\ Raised(result[i], "IOError")
                /\ ~IsErrorMapping(result[i])
                /\ ~Raised(result[i], "SaltInvocationError")
                /\ calls[i] = <<>> /\ ~Contains(steps[i], "call")

C5Witness ==
    \E i \in Procs :
        /\ Done(i) /\ op[i] = "put_schema_from_json"
        /\ args[i].arn = PyStr("X") /\ args[i].document = PyStr("/missing.json")
        /\ reads[i] = <<PyStr("/missing.json")>>
        /\ Raised(result[i], "IOError")

\* ---------------------------------------------------------------- C6
\* The request each operation is said to send for arguments a: the required
\* arguments under the provider's field names, `version` being the value
\* sent as Version and `doc` the bytes sent as Document.
Mapped(o, a, version, doc) ==
    CASE o = "create_schema" -> {<<"Name", a.name>>}
      [] o = "publish_schema" -> {<<"DevelopmentSchemaArn", a.arn>>, <<"Version", version>>}
      [] o = "create_directory" -> {<<"Name", a.name>>, <<"SchemaArn", a.arn>>}
      [] o = "delete_schema" -> {<<"SchemaArn", a.arn>>}
      [] o = "put_schema_from_json" -> {<<"SchemaArn", a.arn>>, <<"Document", doc>>}
      [] OTHER -> {}

\* The bytes stored at the document path.
StoredBytes(a) == IF Has(FS, a.document.s) THEN PyBytes(Get(FS, a.document.s)) ELSE PyNone

\* The text a version is written as: a string is itself, twelve is "12".
VersionText(v) == IF v = PyInt(12) THEN PyStr("12") ELSE v

PutReturnsArn(i) ==
    Done(i) /\ op[i] = "put_schema_from_json" /\ outcome[i].kind = "ok"
        /\ Has(outcome[i].resp, "Arn") => result[i] = Return(Get(outcome[i].resp, "Arn"))

\* C6 (as stated): the remote call receives the required arguments unchanged
\* under the provider's field names (Version = version, Document = the bytes
\* read), and put_schema_from_json returns the Arn field of the response.
C6Original ==
    \A i \in Procs :
        /\ \A k \in 1..Len(calls[i]) :
            /\ calls[i][k].method = op[i]
            /\ calls[i][k].kwargs = Mapped(op[i], args[i], args[i].version, StoredBytes(args[i]))
        /\ PutReturnsArn(i)

\* C6 (amended): as stated, except that publish_schema sends Version as the
\* text form str(version): the version itself when it is a string, its
\* decimal numeral when it is a number.
C6Theorem ==
    \A i \in Procs :
        /\ \A k \in 1..Len(calls[i]) :
            /\ calls[i][k].method = op[i]
            /\ calls[i][k].kwargs =
                 Mapped(op[i], args[i], VersionText(args[i].version), StoredBytes(args[i]))
            /\ op[i] = "publish_schema" => Get(calls[i][k].kwargs, "Version").t = "str"
        /\ PutReturnsArn(i)

C6Witness ==
    \E i \in Procs :
        /\ Done(i) /\ op[i] = "publish_schema" /\ args[i].version = PyInt(12)
        /\ Len(calls[i]) = 1 /\ Get(calls[i][1].kwargs, "Version") = PyStr("12")
        /\ \E j \in Procs :
            /\ Done(j) /\ op[j] = "put_schema_from_json" /\ IsPayload(result[j])
            /\ Get(calls[j][1].kwargs, "Document") = PyBytes("{\"a\":1}")

\* ---------------------------------------------------------------- C7
\* C7: delete_schema with a non-empty arn whose remote call succeeds returns
\* exactly that arn whatever the response holds, and it returns the arn only
\* after its one delete call for that arn completed without a client error.
C7Theorem ==
    \A i \in Procs : Done(i) /\ op[i] = "delete_schema" =>
        /\ ~Empty(args[i].arn) /\ outcome[i].kind = "ok" => result[i] = Return(args[i].arn)
        /\ IsPayload(result[i]) =>
            /\ outcome[i].kind = "ok"
            /\ Requests(i) = <<[method |-> "delete_schema",
                                kwargs |-> {<<"SchemaArn", args[i].arn>>}]>>

C7Witness ==
    \E i \in Procs :
        /\ Done(i) /\ op[i] = "delete_schema" /\ args[i].arn = PyStr("X")
        /\ outcome[i].resp = {<<"SchemaArn", PyStr("arn:1")>>}
        /\ result[i] = Return(PyStr("X"))

\* ---------------------------------------------------------------- C8
\* C8: a list operation whose remote call succeeds returns the ARNs of the
\* response's SchemaArns field, the same elements in the same order; for
\* zero ARNs that is the empty sequence, not an error mapping.
C8Theorem ==
    \A i \in Procs :
        Done(i) /\ op[i] \in ListOps /\ outcome[i].kind = "ok"
            /\ Has(outcome[i].resp, "SchemaArns") =>
                /\ IsPayload(result[i])
                /\ result[i].val.t = "list"
                /\ result[i].val.l = Get(outcome[i].resp, "SchemaArns").l

C8Witness ==
    \E i \in Procs :
        /\ Done(i) /\ op[i] = "list_published_schema_arns"
        /\ result[i] = Return(PyList(<<"arn:2", "arn:1">>))
        /\ \E j \in Procs :
            /\ Done(j) /\ op[j] = "list_development_schema_arns"
            /\ outcome[j].resp = {<<"SchemaArns", PyList(<<>>)>>}
            /\ result[j] = Return(PyList(<<>>))

\* ---------------------------------------------------------------- C9
\* C9: under every interleaving of two invocations, each finished invocation
\* ended as, and sent the requests that, the same operation run alone sends
\* for the same arguments and the same provider outcome; the two use
\* different handles and the module's globals are never written.
C9Theorem ==
    /\ module_state = ModuleGlobals
    /\ \A i \in Procs : Done(i) =>
        LET alone == RunAlone(op[i], args[i], Resolved(i), outcome[i])
        IN  /\ result[i] = alone.result
            /\ Requests(i) = alone.requests
    /\ \A i, j \in Procs : i # j /\ Resolved(i) /\ Resolved(j) => conn[i] # conn[j]

C9Witness ==
    \E i, j \in Procs :
        /\ i # j
        /\ Done(i) /\ result[i] = Return(PyList(<<"arn:1", "arn:2">>))
        /\ pc[j] = "loop" /\ it[j] = 1 /\ arn_list[j] = <<"arn:2">>

\* --------------------------------------------------------------- C10
C10State ==
    \A i \in Procs :
        /\ steps[i] # <<>> => steps[i][1] = "get_conn"
        /\ Count(steps[i], "get_conn") <= 1
        /\ Done(i) => Count(steps[i], "get_conn") = 1
        /\ Contains(steps[i], "validate") => Resolved(i)
        /\ Done(i) /\ Raised(result[i], "SaltInvocationError") => Resolved(i)
        /\ Done(i) /\ ~Resolved(i) => Raised(result[i], "ConnectionError")
        /\ \A k \in 1..Len(calls[i]) : Resolved(i) /\ calls[i][k].conn = conn[i]
        /\ \A j \in Procs \ {i} : Resolved(i) => conn[j] # conn[i]

C10Fresh ==
    \A i \in Procs : conn'[i] # conn[i] /\ conn'[i] # 0 =>
        /\ conn'[i] > issued
        /\ conn[i] = 0

\* C10: every invocation resolves exactly one connection handle, as its first
\* statement and before validating; the handle was never handed out before
\* and no other invocation holds it; an invocation with an empty required
\* argument has resolved its handle when it raises the invocation error, and
\* a failed resolution is what is raised, whatever the arguments.
C10Theorem == []C10State /\ [][C10Fresh]_vars

C10Witness ==
    \E i, j \in Procs :
        /\ Done(i) /\ AnyRequiredEmpty(i) /\ Resolved(i)
        /\ Raised(result[i], "SaltInvocationError")
        /\ Done(j) /\ AnyRequiredEmpty(j) /\ Raised(result[j], "ConnectionError")
        /\ conn[i] = 2

====
